---- MODULE Spec2Model ----
(***************************************************************************)
(* A model of the store engine of src/src/bindActionCreators.ts            *)
(* (createStore and the closures it returns: getState, subscribe,          *)
(* unsubscribe, dispatch, replaceReducer, and the observable adapter), and *)
(* of the two pure helpers beside it: compose of src/src/compose.ts and    *)
(* bindActionCreators.                                                     *)
(*                                                                         *)
(* The engine is synchronous, but dispatch calls back into user code (the  *)
(* reducer, then every listener) and that code may call the store again.   *)
(* A dispatch is therefore split at its callback points: `stack` holds one *)
(* frame per dispatch in progress, and a store operation may be invoked    *)
(* whenever user code runs: at top level (empty stack), from the listener  *)
(* a frame is currently calling, or from the reducer a frame is calling.   *)
(***************************************************************************)
EXTENDS Integers, Sequences, FiniteSets, TLC

\* ---------------------------------------------------------------- bounds
\* The number of calls of store operations user code makes after construction:
\* in the runs of one store built from fixed arguments, and in the runs that
\* start from every combination of createStore's arguments.
MaxCalls == 5
MaxCallsAnyStore == 4
\* ... and in the runs that start from every combination of kinds of
\* createStore's optional arguments.
MaxCallsAnyArguments == 2
\* ... and in the runs in which observers subscribe to the store's observable.
MaxCallsObservable == 4
\* ... and in the runs that record what every outermost dispatch did.
MaxCallsNested == 4
\* ... and in the runs that remember the rejected unsubscribe handles and the
\* abandoned notification loops.
MaxCallsHistory == 5
\* The number of functions handed to compose, and the arguments the composed
\* function is applied to (0..MaxArgument).
MaxFuncs == 3
MaxArgument == 2
\* The number of calls made of the functions bindActionCreators returned.
MaxBoundCalls == 2

\* ---------------------------------------------------------------- values
\* JavaScript `undefined` as a state value; reducer results are never negative.
undefined == -1
\* `null` as the value of currentListeners; list references are 1..Len(heap).
null == 0
\* The value of `typeof action.type === 'undefined'` actions: no type.
NoType == "undefined"
\* A value that is not a function (typeof x !== 'function').
NotAFunction == "notAFunction"
\* A function handed to createStore as an optional argument: a store
\* enhancer (typeof x === 'function'); state values are never negative.
storeEnhancer == -2

\* The reserved action types of utils/actionTypes.
INIT == "@@redux/INIT"
REPLACE == "@@redux/REPLACE"

PlainAction(t) == [kind |-> "plain", type |-> t]
INIT_ACTION == PlainAction(INIT)
REPLACE_ACTION == PlainAction(REPLACE)

\* The values handed to dispatch: plain objects with and without a type,
\* null, a string, an array and a class instance.
ValidActions == {PlainAction("INC"), PlainAction("BOOM")}
Actions ==
    ValidActions \cup
    { PlainAction(NoType),
      [kind |-> "null", type |-> NoType],
      [kind |-> "string", type |-> NoType],
      [kind |-> "array", type |-> NoType],
      [kind |-> "instance", type |-> "INC"] }

\* utils/isPlainObject: a mapping that is not null, a primitive, an array or
\* a class instance.
isPlainObject(action) == action.kind = "plain"

\* The reducers handed to createStore and replaceReducer.
\*   counter: (s = 0, a) => a.type === 'INC' ? s + 1 : s, raising on 'BOOM'
\*   tally:   (s = 0, a) => s + 2, for every action (also the reserved ones)
Reducers == {"counter", "tally"}
PreloadedStates == {undefined, 5}
\* The kinds of createStore's optional arguments: absent, a function, and a
\* value that is neither.
SecondArguments == {undefined, storeEnhancer, 5}
ThirdArguments == {undefined, storeEnhancer, 5}
FourthArguments == {undefined, storeEnhancer}
Callbacks == {"f", "g"}

\* The values handed to the observable's subscribe: an object with a next
\* method, an object without one, and a value that is not an object.
NotAnObject == "notAnObject"
Observers == {"observer", "bare", NotAnObject}
\* The listener observable.subscribe registers: a closure observeState that
\* every call creates anew, over the observer with next or over the observer
\* without. The closure is named after the number n of the call that creates
\* it among the calls user code makes, so that no two are identical.
ObserveStates ==
    <<"observeState#1", "observeState#2", "observeState#3", "observeState#4",
      "observeState#5", "observeState#6", "observeState#7", "observeState#8">>
ObserveNothings ==
    <<"observeNothing#1", "observeNothing#2", "observeNothing#3",
      "observeNothing#4", "observeNothing#5", "observeNothing#6",
      "observeNothing#7", "observeNothing#8">>
ObserveState(n) == ObserveStates[n]
ObserveNothing(n) == ObserveNothings[n]
\* if (observerAsObserver.next): the closure is over an observer with next.
HasNext(listener) ==
    \E n \in DOMAIN ObserveStates : listener = ObserveStates[n]
HasNoNext(listener) ==
    \E n \in DOMAIN ObserveNothings : listener = ObserveNothings[n]
\* The store object createStore returns.
store == "store"

ReducerRaises(r, s, a) == r = "counter" /\ a.type = "BOOM"

Reduce(r, s, a) ==
    LET s0 == IF s = undefined THEN 0 ELSE s
    IN  IF r = "counter"
        THEN (IF a.type = "INC" THEN s0 + 1 ELSE s0)
        ELSE s0 + 2

VARIABLES
    phase,             \* "new", "constructing", "built", "failed", "delegated"
    reducer,           \* createStore's first argument
    preloadedState,    \* createStore's second argument
    enhancer,          \* createStore's third argument
    fourth,            \* createStore's arguments[3]
    currentReducer,
    currentState,
    currentListeners,  \* a list reference, or null
    nextListeners,     \* a list reference
    isDispatching,
    heap,              \* list reference -> the array it denotes
    subs,              \* one record per subscribe call: its closure (listener,
                       \* isSubscribed) and the number of dispatches in progress
                       \* when it was made
    stack,             \* the dispatches in progress, outermost first
    ret,               \* what the last completed call returned or raised
    log,               \* the <<reducer, action>> pairs committed since construction
    initialState,      \* the state the store had right after construction
    reducerCalls,      \* number of reducer invocations started
    nexts,             \* the states handed to the observer's next, in order
    outer,             \* what the outermost dispatch in progress has done
    pure,              \* the call of compose or bindActionCreators under study
    calls,             \* number of store calls made since construction
    budget             \* number of store calls the run may make

engine == <<currentReducer, currentState, currentListeners, nextListeners,
            isDispatching, heap, subs>>
ghost == <<log, initialState, reducerCalls, nexts, outer>>
args == <<reducer, preloadedState, enhancer, fourth>>
vars == <<phase, reducer, preloadedState, enhancer, fourth, currentReducer,
          currentState, currentListeners, nextListeners, isDispatching, heap,
          subs, stack, ret, log, initialState, reducerCalls, nexts, outer,
          pure, calls, budget>>

\* What a call returned or raised: the operation, "ok" or the error, and the
\* value returned (undefined when it raised); and, for the properties, the
\* number of the unsubscribe function invoked and what a dispatch notified.
NoRet == [op |-> "none", outcome |-> "none", value |-> undefined,
          handle |-> 0, notified |-> <<>>, snapshot |-> <<>>]

Result(op, outcome, value) ==
    [op |-> op, outcome |-> outcome, value |-> value,
     handle |-> 0, notified |-> <<>>, snapshot |-> <<>>]

\* unsubscribe returns nothing; `handle` tells which function was invoked.
Unsubscribed(k, outcome) ==
    [Result("unsubscribe", outcome, undefined) EXCEPT !.handle = k]

\* What a call that ran the reducer returns when it does not raise:
\* dispatch the action it was given, replaceReducer and createStore the store.
ReturnValue(via, action, outcome) ==
    IF outcome # "ok" THEN undefined
    ELSE IF via = "dispatch" THEN action
    ELSE store

Top == stack[Len(stack)]
Front(s) == SubSeq(s, 1, Len(s) - 1)

\* Who is running: user code at top level, a reducer or a listener.
InReducer == stack # <<>> /\ Top.pc = "reducer"
InListener == stack # <<>> /\ Top.pc = "listener"
\* The loop is calling observeState of an observer without next: the call
\* runs no user code.
Silent ==
    InListener /\ HasNoNext(Top.notified[Len(Top.notified)].listener)
\* The store object exists and user code holding it is running.
CanCall == phase = "built" /\ ~Silent

\* The record of an outermost dispatch (one made while no other is in
\* progress): the listeners called since it started, by its own loop and by
\* the loops of the dispatches nested in it, with the state each found, and
\* whether a listener raised. The record is kept only where `on` is set.
\* Where `history` is set, the record remembers instead, for the whole run,
\* the unsubscribe functions whose invocation was rejected and the listeners
\* that the last abandoned notification loop did not reach.
NotTracked == [on |-> FALSE, invoked |-> <<>>, aborted |-> FALSE,
               history |-> FALSE, rejected |-> {}, missed |-> <<>>]
Tracked == [NotTracked EXCEPT !.on = TRUE]
History == [NotTracked EXCEPT !.history = TRUE]
Invoke(o, listener, state) ==
    IF o.on
    THEN [o EXCEPT !.invoked = Append(@, [listener |-> listener,
                                          seen |-> state])]
    ELSE o
Reject(o, k) ==
    IF o.history THEN [o EXCEPT !.rejected = @ \cup {k}] ELSE o
Abort(o, unreached) ==
    IF o.on THEN [o EXCEPT !.aborted = TRUE]
    ELSE IF o.history THEN [o EXCEPT !.missed = unreached]
    ELSE o
\* No call of compose or bindActionCreators is under study.
NoCall == [fn |-> "none"]

\* Before createStore is called: nothing exists.
Blank(n) ==
    /\ phase = "new"
    /\ budget = n
    /\ currentReducer = reducer
    /\ currentState = undefined
    /\ currentListeners = null
    /\ nextListeners = null
    /\ isDispatching = FALSE
    /\ heap = <<>>
    /\ subs = <<>>
    /\ stack = <<>>
    /\ ret = NoRet
    /\ log = <<>>
    /\ initialState = undefined
    /\ reducerCalls = 0
    /\ nexts = <<>>
    /\ calls = 0

\* createStore(reducer, preloadedState) is about to be called.
Start(reducers, preloadedStates, n) ==
    /\ reducer \in reducers
    /\ preloadedState \in preloadedStates
    /\ enhancer = undefined
    /\ fourth = undefined
    /\ outer = NotTracked
    /\ pure = NoCall
    /\ Blank(n)

\* createStore(counter): the store of the specification's concrete scenario.
Init == Start({"counter"}, {undefined}, MaxCalls)
\* createStore(reducer, preloadedState) for every reducer and preloaded state.
InitAnyStore == Start(Reducers, PreloadedStates, MaxCallsAnyStore)
\* createStore(reducer, second, third, fourth) for every combination of kinds of
\* the optional arguments, and a reducer that is or is not a function.
InitAnyArguments ==
    /\ reducer \in Reducers \cup {NotAFunction}
    /\ preloadedState \in SecondArguments
    /\ enhancer \in ThirdArguments
    /\ fourth \in FourthArguments
    /\ outer = NotTracked
    /\ pure = NoCall
    /\ Blank(MaxCallsAnyArguments)

\* ------------------------------------------------------------ the engine

\* Array.prototype.indexOf: the zero-based index of the first entry
\* identical to x, or -1.
indexOf(list, x) ==
    IF \E j \in 1..Len(list) : list[j] = x
    THEN (CHOOSE j \in 1..Len(list) :
              list[j] = x /\ \A k \in 1..(j - 1) : list[k] # x) - 1
    ELSE -1

\* splice(index) without a delete count: removes every entry from the index.
splice_toEnd(list, index) ==
    LET n == Len(list)
        start == IF index < 0 THEN (IF n + index < 0 THEN 0 ELSE n + index)
                 ELSE (IF index > n THEN n ELSE index)
    IN  SubSeq(list, 1, start)

\* Array.prototype.splice(index, 1): removes one entry at the zero-based
\* index; a negative index counts from the end of the array.
splice(list, index) ==
    LET n == Len(list)
        start == IF index < 0 THEN (IF n + index < 0 THEN 0 ELSE n + index)
                 ELSE (IF index > n THEN n ELSE index)
    IN  IF start >= n THEN list
        ELSE SubSeq(list, 1, start) \o SubSeq(list, start + 2, n)

\* No copy: the working list is mutated in place even when it is the list
\* a notification loop iterates.
ensureCanMutateNextListeners_noCopy(h, cur, nxt) == [heap |-> h, next |-> nxt]

\* ensureCanMutateNextListeners: the heap and the nextListeners reference
\* after the call; a fresh array is allocated when the two references alias.
ensureCanMutateNextListeners(h, cur, nxt) ==
    IF nxt = cur
    THEN [heap |-> Append(h, h[cur]), next |-> Len(h) + 1]
    ELSE [heap |-> h, next |-> nxt]

\* Array.prototype.unshift in place of push: the listener is put first.
push_front(list, x) == <<x>> \o list

\* Array.prototype.push.
push(list, x) == Append(list, x)

\* The reducer's result is dropped: the state is not assigned.
nextState_dropped(r, s, action) == s

\* currentState = currentReducer(currentState, action)
nextState(r, s, action) == Reduce(r, s, action)

\* No finally: the flag is cleared only when the reducer returns.
finallyFlag_onReturnOnly(raised) == raised

\* try { isDispatching = true; ... } finally { isDispatching = false }: the
\* flag when the reducer call is left, having raised or not.
finallyFlag(raised) == FALSE

\* The preloaded state is ignored.
initialCurrentState_ignored(preloaded) == undefined

\* let currentState = preloadedState
initialCurrentState(preloaded) == preloaded

\* dispatch without its reentrancy check.
DispatchCheck_noReentrancyCheck(action, dispatching) ==
    IF ~isPlainObject(action) THEN "InvalidAction"
    ELSE IF action.type = NoType THEN "MissingType"
    ELSE "enter"

\* dispatch with the reentrancy check made before the shape checks.
DispatchCheck_reentrancyFirst(action, dispatching) ==
    IF dispatching THEN "ReentrancyError"
    ELSE IF ~isPlainObject(action) THEN "InvalidAction"
    ELSE IF action.type = NoType THEN "MissingType"
    ELSE "enter"

\* The checks dispatch makes before it calls the reducer, in source order.
DispatchCheck(action, dispatching) ==
    IF ~isPlainObject(action) THEN "InvalidAction"
    ELSE IF action.type = NoType THEN "MissingType"
    ELSE IF dispatching THEN "ReentrancyError"
    ELSE "enter"

\* A dispatch in progress: its action and reducer, where it stands, the array
\* its loop iterates and the index in it; and, for the properties, the array's
\* content when the loop started, the listeners called so far with the state
\* each found, and (where the outermost dispatch is recorded) the number of
\* commits up to and including its own.
Frame(action, via, r) ==
    [via |-> via, action |-> action, reducer |-> r, pc |-> "reducer",
     listeners |-> null, i |-> 0, snapshot |-> <<>>, notified |-> <<>>,
     commitNo |-> 0, observeState |-> NotAFunction]

\* A call that is now running user code has not returned yet.
Pending(op) == Result(op, "pending", undefined)

\* dispatch(action), up to the point where the reducer `r` is called;
\* `via` is the public operation the call belongs to.
dispatchFrom(action, via, r) ==
    LET check == DispatchCheck(action, isDispatching)
    IN  /\ UNCHANGED <<phase, args, pure, currentState,
                       currentListeners, nextListeners, heap, subs, log,
                       initialState, nexts>>
        /\ outer' = IF check = "enter" /\ stack = <<>> /\ outer.on
                    THEN Tracked ELSE outer
        /\ IF check = "enter"
           THEN /\ isDispatching' = TRUE
                /\ stack' = Append(stack, Frame(action, via, r))
                /\ ret' = Pending(via)
                /\ reducerCalls' = reducerCalls + 1
           ELSE /\ ret' = Result(via, check, undefined)
                /\ UNCHANGED <<isDispatching, stack, reducerCalls>>

\* The top frame's call returns or raises `outcome` to its caller.
Leave(outcome) ==
    /\ stack' = Front(stack)
    /\ ret' = [op |-> Top.via, outcome |-> outcome,
               value |-> ReturnValue(Top.via, Top.action, outcome),
               handle |-> 0,
               notified |-> Top.notified, snapshot |-> Top.snapshot]
    /\ phase' = IF Top.via # "createStore" THEN phase
                ELSE IF outcome = "ok" THEN "built" ELSE "failed"
    /\ initialState' = IF Top.via = "createStore" /\ outcome = "ok"
                       THEN currentState' ELSE initialState

\* The second and third argument taken as they are: a function handed in as
\* second argument is not recognised as the enhancer.
resolveArguments_noSwap(second, third, last) ==
    IF \/ second = storeEnhancer /\ third = storeEnhancer
       \/ third = storeEnhancer /\ last = storeEnhancer
    THEN [outcome |-> "MultipleEnhancers",
          preloadedState |-> second, enhancer |-> third]
    ELSE [outcome |-> IF third = undefined THEN "build"
                      ELSE IF third # storeEnhancer THEN "InvalidArgument"
                      ELSE "delegated",
          preloadedState |-> second, enhancer |-> third]

\* The head of createStore: which of the optional arguments is the preloaded
\* state and which the enhancer, and what the call does with them: raise,
\* hand over to the enhancer ("delegated"), or build the engine.
resolveArguments(second, third, last) ==
    IF \/ second = storeEnhancer /\ third = storeEnhancer
       \/ third = storeEnhancer /\ last = storeEnhancer
    THEN [outcome |-> "MultipleEnhancers",
          preloadedState |-> second, enhancer |-> third]
    ELSE LET swap == second = storeEnhancer /\ third = undefined
             p == IF swap THEN undefined ELSE second
             e == IF swap THEN second ELSE third
         IN  [outcome |-> IF e = undefined THEN "build"
                          ELSE IF e # storeEnhancer THEN "InvalidArgument"
                          ELSE "delegated",
              preloadedState |-> p, enhancer |-> e]

\* createStore(reducer, preloadedState, enhancer): the argument checks, then
\* the closure variables and the bootstrap dispatch of the reserved
\* initialization action; with an enhancer, the call is handed over to
\* enhancer(createStore)(reducer, preloadedState) and builds nothing itself.
createStore ==
    /\ phase = "new"
    /\ LET a == resolveArguments(preloadedState, enhancer, fourth)
           outcome == IF a.outcome = "build" /\ reducer = NotAFunction
                      THEN "InvalidArgument" ELSE a.outcome
       IN  /\ preloadedState' = a.preloadedState
           /\ enhancer' = a.enhancer
           /\ UNCHANGED <<reducer, fourth, pure, subs, log, initialState,
                          nexts, outer>>
           /\ IF outcome # "build"
              THEN /\ phase' = IF outcome = "delegated" THEN "delegated"
                               ELSE "failed"
                   /\ ret' = Result("createStore", outcome, undefined)
                   /\ UNCHANGED <<currentReducer, currentState,
                                  currentListeners, nextListeners,
                                  isDispatching, heap, stack, reducerCalls>>
              ELSE /\ currentReducer' = reducer
                   /\ currentState' = initialCurrentState(a.preloadedState)
                   /\ heap' = << <<>> >>
                   /\ currentListeners' = 1
                   /\ nextListeners' = 1
                   /\ IF DispatchCheck(INIT_ACTION, FALSE) = "enter"
                      THEN /\ phase' = "constructing"
                           /\ isDispatching' = TRUE
                           /\ stack' = <<Frame(INIT_ACTION, "createStore",
                                               reducer)>>
                           /\ ret' = Pending("createStore")
                           /\ reducerCalls' = reducerCalls + 1
                      ELSE /\ phase' = "failed"
                           /\ ret' = Result("createStore",
                                  DispatchCheck(INIT_ACTION, FALSE), undefined)
                           /\ UNCHANGED <<isDispatching, stack, reducerCalls>>

\* getState without its reentrancy check.
getState_unguarded ==
    /\ CanCall
    /\ ret' = Result("getState", "ok", currentState)
    /\ UNCHANGED <<phase, args, pure, engine, stack, ghost>>

getState ==
    /\ CanCall
    /\ ret' = IF isDispatching
              THEN Result("getState", "ReentrancyError", undefined)
              ELSE Result("getState", "ok", currentState)
    /\ UNCHANGED <<phase, args, pure, engine, stack, ghost>>

\* subscribe(listener), called by user code or as outerSubscribe by the
\* observable's subscribe (`via`), with `depth` calls in progress around it.
subscribeFrom(listener, via, depth) ==
    IF listener = NotAFunction
    THEN /\ ret' = Result(via, "InvalidArgument", undefined)
         /\ UNCHANGED <<nextListeners, heap, subs>>
    ELSE IF isDispatching
    THEN /\ ret' = Result(via, "ReentrancyError", undefined)
         /\ UNCHANGED <<nextListeners, heap, subs>>
    ELSE LET m == ensureCanMutateNextListeners(heap, currentListeners,
                                               nextListeners)
         IN  /\ nextListeners' = m.next
             /\ heap' = [m.heap EXCEPT ![m.next] = push(@, listener)]
             /\ subs' = Append(subs, [listener |-> listener,
                                      isSubscribed |-> TRUE,
                                      depth |-> depth])
             /\ ret' = Result(via, "ok", Len(subs) + 1)

subscribe(listener) ==
    /\ CanCall
    /\ UNCHANGED <<phase, args, pure, currentReducer,
                   currentState, currentListeners, isDispatching, stack, ghost>>
    /\ subscribeFrom(listener, "subscribe", Len(stack))

\* An unsubscribe function that clears isSubscribed before its reentrancy
\* check: a rejected invocation uses the function up.
unsubscribe_consumedOnReject(k) ==
    /\ CanCall
    /\ UNCHANGED <<phase, args, pure, currentReducer, currentState,
                   isDispatching, stack, log, initialState, reducerCalls,
                   nexts>>
    /\ outer' = IF subs[k].isSubscribed /\ isDispatching
                THEN Reject(outer, k) ELSE outer
    /\ IF ~subs[k].isSubscribed
       THEN /\ ret' = Unsubscribed(k, "ok")
            /\ UNCHANGED <<currentListeners, nextListeners, heap, subs>>
       ELSE IF isDispatching
       THEN /\ ret' = Unsubscribed(k, "ReentrancyError")
            /\ subs' = [subs EXCEPT ![k].isSubscribed = FALSE]
            /\ UNCHANGED <<currentListeners, nextListeners, heap>>
       ELSE LET m == ensureCanMutateNextListeners(heap, currentListeners,
                                                  nextListeners)
                index == indexOf(m.heap[m.next], subs[k].listener)
            IN  /\ subs' = [subs EXCEPT ![k].isSubscribed = FALSE]
                /\ nextListeners' = m.next
                /\ heap' = [m.heap EXCEPT ![m.next] = splice(@, index)]
                /\ currentListeners' = null
                /\ ret' = Unsubscribed(k, "ok")

\* The function returned by the k-th subscribe call.
unsubscribe(k) ==
    /\ CanCall
    /\ UNCHANGED <<phase, args, pure, currentReducer, currentState,
                   isDispatching, stack, log, initialState, reducerCalls,
                   nexts>>
    /\ outer' = IF subs[k].isSubscribed /\ isDispatching
                THEN Reject(outer, k) ELSE outer
    /\ IF ~subs[k].isSubscribed
       THEN /\ ret' = Unsubscribed(k, "ok")
            /\ UNCHANGED <<currentListeners, nextListeners, heap, subs>>
       ELSE IF isDispatching
       THEN /\ ret' = Unsubscribed(k, "ReentrancyError")
            /\ UNCHANGED <<currentListeners, nextListeners, heap, subs>>
       ELSE LET m == ensureCanMutateNextListeners(heap, currentListeners,
                                                  nextListeners)
                index == indexOf(m.heap[m.next], subs[k].listener)
            IN  /\ subs' = [subs EXCEPT ![k].isSubscribed = FALSE]
                /\ nextListeners' = m.next
                /\ heap' = [m.heap EXCEPT ![m.next] = splice(@, index)]
                /\ currentListeners' = null
                /\ ret' = Unsubscribed(k, "ok")

dispatch(action) ==
    /\ CanCall
    /\ UNCHANGED currentReducer
    /\ dispatchFrom(action, "dispatch", currentReducer)

\* replaceReducer that dispatches the replace action to the reducer it
\* replaces, and installs nextReducer only for later dispatches.
replaceReducer_dispatchesOld(nextReducer) ==
    /\ CanCall
    /\ IF nextReducer = NotAFunction
       THEN /\ ret' = Result("replaceReducer", "InvalidArgument", undefined)
            /\ UNCHANGED <<phase, args, pure, engine, stack, ghost>>
       ELSE /\ currentReducer' = nextReducer
            /\ dispatchFrom(REPLACE_ACTION, "replaceReducer", currentReducer)

\* replaceReducer that applies nextReducer to the state itself, without a
\* dispatch: the state changes outside any dispatch and no listener is called.
replaceReducer_noDispatch(nextReducer) ==
    /\ CanCall
    /\ UNCHANGED <<phase, args, pure, currentListeners, nextListeners,
                   isDispatching, heap, subs, stack, ghost>>
    /\ IF nextReducer = NotAFunction
       THEN /\ ret' = Result("replaceReducer", "InvalidArgument", undefined)
            /\ UNCHANGED <<currentReducer, currentState>>
       ELSE /\ currentReducer' = nextReducer
            /\ currentState' = Reduce(nextReducer, currentState,
                                      REPLACE_ACTION)
            /\ ret' = Result("replaceReducer", "ok", store)

replaceReducer(nextReducer) ==
    /\ CanCall
    /\ IF nextReducer = NotAFunction
       THEN /\ ret' = Result("replaceReducer", "InvalidArgument", undefined)
            /\ UNCHANGED <<phase, args, pure, engine, stack, ghost>>
       ELSE /\ currentReducer' = nextReducer
            /\ dispatchFrom(REPLACE_ACTION, "replaceReducer", nextReducer)

\* observeState(): observer.next(getState()) if the observer has a next
\* method; `received` is what next has been handed so far.
emit(received, listener, state) ==
    IF HasNext(listener) THEN Append(received, state) ELSE received

\* observable().subscribe(observer), up to the point where observeState()
\* calls the observer's next; without next, through to its end.
observableSubscribe(observer) ==
    /\ CanCall
    /\ UNCHANGED <<phase, args, pure, currentReducer, currentState,
                   currentListeners, isDispatching, log, initialState,
                   reducerCalls, outer>>
    /\ IF observer = NotAnObject
       THEN /\ ret' = Result("observable.subscribe", "InvalidArgument",
                             undefined)
            /\ UNCHANGED <<nextListeners, heap, subs, stack, nexts>>
       ELSE IF observer = "bare"
       THEN /\ subscribeFrom(ObserveNothing(calls + 1),
                             "observable.subscribe", Len(stack))
            /\ UNCHANGED <<stack, nexts>>
       ELSE IF isDispatching
       THEN /\ ret' = Result("observable.subscribe", "ReentrancyError",
                             undefined)
            /\ UNCHANGED <<nextListeners, heap, subs, stack, nexts>>
       ELSE /\ nexts' = emit(nexts, ObserveState(calls + 1), currentState)
            /\ stack' = Append(stack,
                   [Frame(INIT_ACTION, "observable.subscribe", currentReducer)
                       EXCEPT !.pc = "next",
                              !.observeState = ObserveState(calls + 1)])
            /\ ret' = Pending("observable.subscribe")
            /\ UNCHANGED <<nextListeners, heap, subs>>

\* Who is running: the next method called by observable.subscribe.
InNext == stack # <<>> /\ Top.pc = "next"

\* The observer's next returns to observable.subscribe, which registers
\* observeState with the store's subscribe and returns the handle.
nextReturns ==
    /\ InNext
    /\ stack' = Front(stack)
    /\ subscribeFrom(Top.observeState, "observable.subscribe",
                     Len(stack) - 1)
    /\ UNCHANGED <<phase, args, pure, currentReducer, currentState,
                   currentListeners, isDispatching, ghost>>

\* The observer's next raises: observable.subscribe registers nothing.
nextThrows ==
    /\ InNext
    /\ stack' = Front(stack)
    /\ ret' = Result("observable.subscribe", "ObserverError", undefined)
    /\ UNCHANGED <<phase, args, pure, engine, ghost>>

\* const listeners = currentListeners: the loop iterates the array of the
\* previous dispatch and the working array is not committed.
takeSnapshot_committed(cur, nxt) == IF cur # null THEN cur ELSE nxt

\* const listeners = (currentListeners = nextListeners): the reference the
\* loop iterates, which is also the new committed reference.
takeSnapshot(cur, nxt) == nxt

\* The reducer called by the top frame returns: the state is committed, the
\* flag cleared, and the notification loop starts on the working list.
reducerReturns ==
    /\ InReducer
    /\ ~ReducerRaises(Top.reducer, currentState, Top.action)
    /\ LET s == nextState(Top.reducer, currentState, Top.action)
           taken == takeSnapshot(currentListeners, nextListeners)
           listeners == heap[taken]
       IN  /\ currentState' = s
           /\ isDispatching' = finallyFlag(FALSE)
           /\ currentListeners' = taken
           /\ log' = IF Top.via = "createStore" THEN <<>>
                     ELSE Append(log, <<Top.reducer, Top.action>>)
           /\ IF Len(listeners) = 0
              THEN Leave("ok")
              ELSE /\ stack' = [stack EXCEPT ![Len(stack)] =
                         [@ EXCEPT !.pc = "listener",
                                   !.commitNo = IF outer.on THEN Len(log')
                                               ELSE 0,
                                   !.listeners = taken,
                                   !.i = 1,
                                   !.snapshot = listeners,
                                   !.notified =
                                       <<[listener |-> listeners[1], seen |-> s]>>]]
                   /\ UNCHANGED <<ret, phase, initialState>>
           /\ nexts' = IF Len(listeners) = 0 THEN nexts
                       ELSE emit(nexts, listeners[1], s)
           /\ outer' = IF Len(listeners) = 0 THEN outer
                       ELSE Invoke(outer, listeners[1], s)
    /\ UNCHANGED <<args, pure, currentReducer, nextListeners,
                   heap, subs, reducerCalls>>

\* The reducer called by the top frame raises, or lets the error of a store
\* call it made propagate: the finally block clears the flag.
Errors == {"InvalidAction", "MissingType", "ReentrancyError",
           "InvalidArgument", "ReducerError", "ListenerError",
           "MultipleEnhancers", "ObserverError"}

reducerThrows ==
    /\ InReducer
    /\ \/ ReducerRaises(Top.reducer, currentState, Top.action)
       \/ ret.outcome \in Errors
    /\ isDispatching' = finallyFlag(TRUE)
    /\ Leave(IF ReducerRaises(Top.reducer, currentState, Top.action)
             THEN "ReducerError" ELSE ret.outcome)
    /\ UNCHANGED <<args, pure, currentReducer, currentState,
                   currentListeners, nextListeners, heap, subs, log,
                   reducerCalls, nexts, outer>>

\* The listener called by the top frame returns: the loop calls the next
\* entry of the array it iterates, or dispatch returns the action.
listenerReturns ==
    /\ InListener
    /\ LET listeners == heap[Top.listeners]
       IN  IF Top.i < Len(listeners)
           THEN /\ stack' = [stack EXCEPT ![Len(stack)] =
                      [@ EXCEPT !.i = Top.i + 1,
                                !.notified = Append(@,
                                    [listener |-> listeners[Top.i + 1],
                                     seen |-> currentState])]]
                /\ nexts' = emit(nexts, listeners[Top.i + 1], currentState)
                /\ outer' = Invoke(outer, listeners[Top.i + 1], currentState)
                /\ UNCHANGED <<ret, phase, initialState>>
           ELSE Leave("ok") /\ UNCHANGED <<nexts, outer>>
    /\ UNCHANGED <<args, pure, engine, log, reducerCalls>>

\* The loop calls its listeners in a try block that drops their errors: the
\* loop goes on and dispatch returns normally.
listenerThrows_swallowed ==
    /\ InListener
    /\ ~Silent
    /\ listenerReturns

\* The listener called by the top frame raises: the loop is abandoned and
\* the error leaves dispatch.
listenerThrows ==
    /\ InListener
    /\ ~Silent
    /\ Leave("ListenerError")
    /\ outer' = Abort(outer, SubSeq(Top.snapshot, Top.i + 1,
                                    Len(Top.snapshot)))
    /\ UNCHANGED <<args, pure, engine, log, reducerCalls, nexts>>

\* ------------------------------------------------------- the state machine
\* User code calls a store operation: at top level, from a listener or from
\* a reducer.
Call == calls < budget /\ calls' = calls + 1 /\ UNCHANGED budget
\* The engine resumes after a callback; no call is made.
Resume == UNCHANGED <<calls, budget>>

CreateStore == createStore /\ Resume
GetState == Call /\ getState
Subscribe ==
    \E listener \in Callbacks \cup {NotAFunction} : Call /\ subscribe(listener)
Unsubscribe == \E k \in DOMAIN subs : Call /\ unsubscribe(k)
Dispatch == \E action \in Actions : Call /\ dispatch(action)
ReplaceReducer ==
    \E nextReducer \in Reducers \cup {NotAFunction} :
        Call /\ replaceReducer(nextReducer)
ReducerReturns == reducerReturns /\ Resume
ReducerThrows == reducerThrows /\ Resume
ListenerReturns == listenerReturns /\ Resume
ListenerThrows == listenerThrows /\ Resume
ObservableSubscribe ==
    \E observer \in Observers : Call /\ observableSubscribe(observer)
NextReturns == nextReturns /\ Resume
NextThrows == nextThrows /\ Resume

Next ==
    \/ CreateStore
    \/ GetState
    \/ Subscribe
    \/ Unsubscribe
    \/ Dispatch
    \/ ReplaceReducer
    \/ ReducerReturns
    \/ ReducerThrows
    \/ ListenerReturns
    \/ ListenerThrows

Spec == Init /\ [][Next]_vars
SpecAnyStore == InitAnyStore /\ [][Next]_vars
SpecAnyArguments == InitAnyArguments /\ [][Next]_vars

\* The store of the concrete scenario, with observers of its observable.
InitObservable == Start({"counter"}, {undefined}, MaxCallsObservable)
NextObservable ==
    \/ Next
    \/ ObservableSubscribe
    \/ NextReturns
    \/ NextThrows
SpecObservable == InitObservable /\ [][NextObservable]_vars

\* The store of the concrete scenario, with the record of what every
\* outermost dispatch did.
InitNested ==
    /\ reducer = "counter"
    /\ preloadedState = undefined
    /\ enhancer = undefined
    /\ fourth = undefined
    /\ outer = Tracked
    /\ pure = NoCall
    /\ Blank(MaxCallsNested)
SpecNested == InitNested /\ [][Next]_vars

\* The store of the concrete scenario, with the memory of the rejected
\* unsubscribe functions and of the abandoned notification loops.
InitHistory ==
    /\ reducer = "counter"
    /\ preloadedState = undefined
    /\ enhancer = undefined
    /\ fourth = undefined
    /\ outer = History
    /\ pure = NoCall
    /\ Blank(MaxCallsHistory)
SpecHistory == InitHistory /\ [][Next]_vars

\* ---------------------------------------------------------------- compose
\* Function values: the functions handed to compose, the identity arrow
\* function compose() returns, and the arrow functions reduce builds.
Given(name) == [kind |-> "given", name |-> name]
Identity == [kind |-> "identity"]
\* The functions handed to compose: x + 1, 2 * x and x * x.
Funcs == {Given("inc"), Given("dbl"), Given("sqr")}
Arguments == 0..MaxArgument

RECURSIVE SeqsUpTo(_, _)
SeqsUpTo(S, n) ==
    IF n = 0 THEN {<<>>}
    ELSE LET shorter == SeqsUpTo(S, n - 1)
         IN  shorter \cup {Append(q, f) : q \in shorter, f \in S}

\* (a, b) => (...args) => b(a(...args)): the composition the wrong way round.
composeTwo_flipped(a, b) == [kind |-> "composed", a |-> b, b |-> a]

\* The callback of reduce: (a, b) => (...args) => a(b(...args))
composeTwo(a, b) == [kind |-> "composed", a |-> a, b |-> b]

\* Array.prototype.reduce without an initial value: the accumulator starts
\* as the first element and the callback is applied from the second one on.
RECURSIVE reduce(_, _)
reduce(acc, rest) ==
    IF rest = <<>> THEN acc
    ELSE reduce(composeTwo(acc, Head(rest)), Tail(rest))

compose(funcs) ==
    IF Len(funcs) = 0 THEN Identity
    ELSE IF Len(funcs) = 1 THEN funcs[1]
    ELSE reduce(Head(funcs), Tail(funcs))

\* Calling a function value with one argument.
RECURSIVE Apply(_, _)
Apply(f, x) ==
    IF f.kind = "identity" THEN x
    ELSE IF f.kind = "composed" THEN Apply(f.a, Apply(f.b, x))
    ELSE IF f.name = "inc" THEN x + 1
    ELSE IF f.name = "dbl" THEN 2 * x
    ELSE x * x

\* Everything but `pure`: no store is involved in these calls.
storeVars == <<phase, args, engine, stack, ret, ghost, calls, budget>>
NoStore ==
    /\ reducer = "counter"
    /\ preloadedState = undefined
    /\ enhancer = undefined
    /\ fourth = undefined
    /\ outer = NotTracked

\* compose(...funcs) is about to be called, and its result applied to x.
InitCompose ==
    /\ NoStore
    /\ Blank(0)
    /\ \E funcs \in SeqsUpTo(Funcs, MaxFuncs), x \in Arguments :
           pure = [fn |-> "compose", step |-> "start", funcs |-> funcs,
                   x |-> x, composed |-> Identity, result |-> undefined]

Compose ==
    /\ pure.fn = "compose"
    /\ pure.step = "start"
    /\ pure' = [pure EXCEPT !.step = "composed",
                            !.composed = compose(pure.funcs)]
    /\ UNCHANGED storeVars

ApplyComposed ==
    /\ pure.fn = "compose"
    /\ pure.step = "composed"
    /\ pure' = [pure EXCEPT !.step = "applied",
                            !.result = Apply(pure.composed, pure.x)]
    /\ UNCHANGED storeVars

NextCompose ==
    \/ Compose
    \/ ApplyComposed

SpecCompose == InitCompose /\ [][NextCompose]_vars

\* ----------------------------------------------------- bindActionCreators
\* The action creators: () => ({ type: 'INC' }) and
\* n => ({ type: 'ADD', payload: n }).
Creators == {"inc", "add"}
Create(creator, arg) ==
    IF creator = "inc" THEN [type |-> "INC", payload |-> undefined]
    ELSE [type |-> "ADD", payload |-> arg]
\* The dispatch function handed to bindActionCreators: any function; this one
\* returns a value that is not the action it was given.
dispatchStub(action) == [dispatched |-> action]

\* The values handed to bindActionCreators: a function, an object (its own
\* enumerable properties and those it inherits, each an action creator or a
\* value that is not a function), and null, undefined, a string, a number.
Keys == {"a", "b"}
Properties == UNION {[K -> Creators \cup {NotAFunction}] : K \in SUBSET Keys}
NoProperties == [k \in {} |-> NotAFunction]
ActionCreatorsInputs ==
    {[kind |-> "function", creator |-> c, own |-> NoProperties,
      proto |-> NoProperties] : c \in Creators}
    \cup {[kind |-> "object", creator |-> NotAFunction, own |-> o,
           proto |-> q] : o \in Properties, q \in Properties}
    \cup {[kind |-> k, creator |-> NotAFunction, own |-> NoProperties,
           proto |-> NoProperties] :
              k \in {"null", "undefined", "string", "number"}}

\* for (const key in actionCreators): own and inherited enumerable keys.
forIn(o) == DOMAIN o.own \cup DOMAIN o.proto
\* actionCreators[key]: an own property shadows an inherited one.
Get(o, key) == IF key \in DOMAIN o.own THEN o.own[key] ELSE o.proto[key]

\* The function bindActionCreator returns, as the creator it wraps.
bindActionCreator(actionCreator) == actionCreator

\* The bound function returns the action without dispatching it.
callBound_noDispatch(creator, arg, dispatched) ==
    [dispatched |-> dispatched, returned |-> dispatchStub(Create(creator, arg))]

\* A call of the function bindActionCreator returned:
\* dispatch(actionCreator.apply(this, args)); `dispatched` is what the
\* dispatch function has been handed so far.
callBound(creator, arg, dispatched) ==
    [dispatched |-> Append(dispatched, Create(creator, arg)),
     returned |-> dispatchStub(Create(creator, arg))]

\* bindActionCreators(actionCreators, dispatch): what it returns or raises.
bindActionCreators(actionCreators) ==
    IF actionCreators.kind = "function"
    THEN [outcome |-> "ok", kind |-> "function",
          creator |-> bindActionCreator(actionCreators.creator),
          own |-> NoProperties]
    ELSE IF actionCreators.kind # "object"
    THEN [outcome |-> "Error", kind |-> "none", creator |-> NotAFunction,
          own |-> NoProperties]
    ELSE [outcome |-> "ok", kind |-> "object", creator |-> NotAFunction,
          own |-> [key \in {k \in forIn(actionCreators) :
                               Get(actionCreators, k) \in Creators} |->
                      bindActionCreator(Get(actionCreators, key))]]

\* The functions of a result of bindActionCreators: the keys they are
\* called by ("()" for the single bound function) and what they wrap.
BoundKeys(b) == IF b.kind = "function" THEN {"()"} ELSE DOMAIN b.own
BoundCreator(b, key) == IF b.kind = "function" THEN b.creator ELSE b.own[key]

\* bindActionCreators(actionCreators, dispatch) is about to be called.
InitBind ==
    /\ NoStore
    /\ Blank(0)
    /\ \E input \in ActionCreatorsInputs :
           pure = [fn |-> "bindActionCreators", step |-> "start",
                   input |-> input,
                   bound |-> [outcome |-> "none", kind |-> "none",
                              creator |-> NotAFunction, own |-> NoProperties],
                   made |-> <<>>, dispatched |-> <<>>, returned |-> <<>>]

BindActionCreators ==
    /\ pure.fn = "bindActionCreators"
    /\ pure.step = "start"
    /\ LET b == bindActionCreators(pure.input)
       IN  pure' = [pure EXCEPT !.bound = b,
                                !.step = IF b.outcome = "ok" THEN "bound"
                                         ELSE "failed"]
    /\ UNCHANGED storeVars

\* User code calls one of the bound functions.
CallBound ==
    /\ pure.fn = "bindActionCreators"
    /\ pure.step = "bound"
    /\ Len(pure.made) < MaxBoundCalls
    /\ \E key \in BoundKeys(pure.bound), arg \in Arguments :
           LET c == callBound(BoundCreator(pure.bound, key), arg,
                              pure.dispatched)
           IN  pure' = [pure EXCEPT
                           !.made = Append(@, [key |-> key, arg |-> arg]),
                           !.dispatched = c.dispatched,
                           !.returned = Append(@, c.returned)]
    /\ UNCHANGED storeVars

NextBind ==
    \/ BindActionCreators
    \/ CallBound

SpecBind == InitBind /\ [][NextBind]_vars

\* ------------------------------------------------------------ properties

\* The callbacks of a sequence of notification records.
ListenersOf(notified) == [j \in 1..Len(notified) |-> notified[j].listener]

\* The left fold of the logged reducers over the logged actions.
RECURSIVE FoldLeft(_, _)
FoldLeft(entries, s) ==
    IF entries = <<>> THEN s
    ELSE FoldLeft(Tail(entries),
                  Reduce(Head(entries)[1], s, Head(entries)[2]))

\* C1: once the store is built, the state (and what a successful getState
\* returns) is the left fold of the reducer over the actions committed so
\* far, starting from the state the store had right after construction.
C1_StateIsLeftFold ==
    phase = "built" =>
        /\ currentState = FoldLeft(log, initialState)
        /\ (ret.op = "getState" /\ ret.outcome = "ok") =>
               ret.value = FoldLeft(log, initialState)

\* C1 witness: getState at top level after three committed actions that
\* changed the state.
C1_Witness ==
    /\ stack = <<>>
    /\ Len(log) = 3
    /\ ret.op = "getState"
    /\ ret.outcome = "ok"
    /\ ret.value # initialState

\* C2: while Dispatching, getState(), subscribe(callable) and
\* dispatch(valid action) raise ReentrancyError and change nothing: state,
\* reducer, listener lists, subscriptions and the dispatches in progress are
\* as before and the engine is still Dispatching.
C2_RejectedWhileDispatching ==
    [][ (/\ isDispatching
         /\ \/ getState
            \/ \E listener \in Callbacks : subscribe(listener)
            \/ \E action \in ValidActions : dispatch(action))
        => (/\ ret'.outcome = "ReentrancyError"
            /\ isDispatching'
            /\ UNCHANGED <<engine, stack, reducerCalls, log>>) ]_vars

\* C2 witness: a dispatch made by a reducer was rejected and the engine is
\* still Dispatching.
C2_Witness ==
    /\ InReducer
    /\ isDispatching
    /\ ret.op = "dispatch"
    /\ ret.outcome = "ReentrancyError"

\* C3 as stated: at most one dispatch is in progress at any time (a dispatch
\* made by a listener is rejected like one made by a reducer).
C3_Original == Len(stack) <= 1

\* C3 amended: the flag is set exactly while a reducer runs and is cleared
\* before the notification phase; at most one reducer runs at any time (only
\* the innermost dispatch can be in its reducer), and a dispatch made by a
\* listener is accepted as a nested dispatch.
C3_OneReducerInFlight ==
    /\ isDispatching <=> InReducer
    /\ \A j \in 1..(Len(stack) - 1) : stack[j].pc = "listener"

\* C3 witness: a dispatch made by a listener is running its reducer while
\* the outer dispatch is still notifying.
C3_Witness ==
    /\ Len(stack) = 2
    /\ stack[1].pc = "listener"
    /\ stack[2].pc = "reducer"
    /\ stack[2].via = "dispatch"
    /\ isDispatching

\* C4: when the reducer raises, the error reaches the caller of dispatch,
\* the flag is cleared, the state is the one before the dispatch, no
\* listener is notified and the listener lists are untouched; whenever no
\* dispatch is in progress the engine is not Dispatching, and then getState,
\* subscribe(callable) and dispatch(valid action) are accepted.
C4_ReducerRaises ==
    [][ /\ reducerThrows =>
            /\ ~isDispatching'
            /\ currentState' = currentState
            /\ ret'.op = Top.via
            /\ ret'.outcome =
                   (IF ReducerRaises(Top.reducer, currentState, Top.action)
                    THEN "ReducerError" ELSE ret.outcome)
            /\ ret'.notified = <<>>
            /\ stack' = Front(stack)
            /\ UNCHANGED <<currentReducer, currentListeners, nextListeners,
                           heap, subs, log>>
        /\ stack' = <<>> => ~isDispatching'
        /\ (~isDispatching /\ getState) => ret'.outcome = "ok"
        /\ \A listener \in Callbacks :
               (~isDispatching /\ subscribe(listener)) => ret'.outcome = "ok"
        /\ \A action \in ValidActions :
               (~isDispatching /\ dispatch(action)) =>
                   Len(stack') = Len(stack) + 1 ]_vars

\* C4 witness: a dispatch whose reducer raised has returned to top level
\* with listeners subscribed; the engine is idle.
C4_Witness ==
    /\ stack = <<>>
    /\ ret.op = "dispatch"
    /\ ret.outcome = "ReducerError"
    /\ heap[nextListeners] # <<>>
    /\ ~isDispatching

\* Number of entries of a list that are the callback x.
Count(list, x) == Cardinality({j \in 1..Len(list) : list[j] = x})
\* Number of subscriptions of x whose unsubscribe has not taken effect.
LiveCount(x) ==
    Cardinality({k \in 1..Len(subs) :
                     subs[k].isSubscribed /\ subs[k].listener = x})
\* The working listener list.
Working == heap[nextListeners]
\* The top frame's call has just returned or raised.
Left == Len(stack') = Len(stack) - 1
\* The snapshot of the notification phase that a step has just started.
SnapshotTaken == IF Left THEN ret'.snapshot ELSE stack'[Len(stack')].snapshot

\* C5: the snapshot of a notification phase holds, for every callback, one
\* entry per subscription live when the phase starts (so one made during an
\* earlier phase is in it and one removed during an earlier phase is not);
\* the listeners called so far by a dispatch in progress are a prefix of its
\* snapshot whatever listeners subscribed or unsubscribed meanwhile, and a
\* dispatch that returns has called exactly its snapshot, in order.
C5_NotifiesSnapshot ==
    [][ /\ reducerReturns =>
            \A x \in Callbacks : Count(SnapshotTaken, x) = LiveCount(x)
        /\ \A j \in 1..Len(stack') :
               stack'[j].pc = "listener" =>
                   /\ Len(stack'[j].notified) = stack'[j].i
                   /\ stack'[j].i <= Len(stack'[j].snapshot)
                   /\ \A n \in 1..stack'[j].i :
                          stack'[j].notified[n].listener =
                              stack'[j].snapshot[n]
        /\ (listenerReturns /\ Left) =>
               ListenersOf(ret'.notified) = ret'.snapshot ]_vars

\* C5 witness: a dispatch has returned after calling both listeners of its
\* snapshot, although the working list changed during its phase.
C5_Witness ==
    /\ stack = <<>>
    /\ ret.op = "dispatch"
    /\ ret.outcome = "ok"
    /\ Len(ret.notified) = 2
    /\ ListenersOf(ret.notified) = ret.snapshot
    /\ Working # ret.snapshot

\* A run that subscribed n listeners at top level and then made one
\* dispatch, which has returned.
SubscribedThenDispatchedOnce ==
    /\ stack = <<>>
    /\ ret.op = "dispatch"
    /\ ret.outcome = "ok"
    /\ calls = Len(subs) + 1
    /\ \A k \in 1..Len(subs) : subs[k].depth = 0 /\ subs[k].isSubscribed

\* C6: after n listeners are subscribed at top level, one successful
\* dispatch has, when it returns, called each of them exactly once, in
\* subscription order, each seeing the state the reducer returned.
C6_EachOnceInOrder ==
    SubscribedThenDispatchedOnce =>
        /\ Len(log) = 1
        /\ currentState = Reduce(log[1][1], initialState, log[1][2])
        /\ ret.notified =
               [k \in 1..Len(subs) |->
                   [listener |-> subs[k].listener, seen |-> currentState]]

\* C6 witness: three listeners, one dispatch that changed the state.
C6_Witness ==
    /\ SubscribedThenDispatchedOnce
    /\ Len(subs) = 3
    /\ Len(ret.notified) = 3
    /\ currentState # initialState

\* C7: when createStore returns, the state is
\* reducer(preloadedState, INIT_ACTION), the reducer has been called exactly
\* once, with the initialization action, the engine is idle and no listener
\* is registered; until then the only reducer call is the bootstrap one.
C7_Bootstrap ==
    /\ phase = "new" => reducerCalls = 0
    /\ phase = "constructing" =>
           /\ reducerCalls = 1
           /\ Len(stack) = 1
           /\ Top.action = INIT_ACTION
           /\ Top.reducer = reducer
    /\ (ret.op = "createStore" /\ ret.outcome = "ok") =>
           /\ phase = "built"
           /\ currentState = Reduce(reducer, preloadedState, INIT_ACTION)
           /\ currentReducer = reducer
           /\ reducerCalls = 1
           /\ ~isDispatching
           /\ stack = <<>>
           /\ Working = <<>>
           /\ subs = <<>>

\* C7 witness: createStore(tally, 5) has returned a store whose state is 7.
C7_Witness ==
    /\ ret.op = "createStore"
    /\ ret.outcome = "ok"
    /\ reducer = "tally"
    /\ preloadedState = 5
    /\ currentState = 7

\* C8: dispatch of a value that is not a plain object raises InvalidAction
\* and dispatch of a plain object without type raises MissingType, also
\* while Dispatching; the reducer is not called, no listener is notified and
\* state, flag, reducer and listener lists are unchanged.
C8_ShapeChecksFirst ==
    [][ \A action \in Actions \ ValidActions :
            (ret'.op = "dispatch" /\ dispatch(action)) =>
                /\ ret'.op = "dispatch"
                /\ ret'.outcome = (IF isPlainObject(action)
                                   THEN "MissingType" ELSE "InvalidAction")
                /\ ret'.notified = <<>>
                /\ UNCHANGED <<engine, stack, reducerCalls, log>> ]_vars

\* C8 witness: an invalid action dispatched by a reducer was reported as
\* InvalidAction, and the engine is still Dispatching.
C8_Witness ==
    /\ isDispatching
    /\ InReducer
    /\ ret.op = "dispatch"
    /\ ret.outcome = "InvalidAction"

\* C9: the first invocation of an unsubscribe function that takes effect
\* removes exactly one entry of the working list, an entry of its listener;
\* every later invocation returns normally and changes nothing, whether the
\* engine is idle or Dispatching.
C9_UnsubscribeOnce ==
    [][ \A k \in 1..Len(subs) :
            unsubscribe(k) =>
                IF ~subs[k].isSubscribed
                THEN /\ ret'.outcome = "ok"
                     /\ UNCHANGED <<engine, stack, reducerCalls, log>>
                ELSE ~isDispatching =>
                     /\ ret'.outcome = "ok"
                     /\ ~subs'[k].isSubscribed
                     /\ Len(Working') = Len(Working) - 1
                     /\ \A x \in Callbacks :
                            Count(Working', x) =
                                Count(Working, x) -
                                    (IF x = subs[k].listener THEN 1 ELSE 0)
                     /\ UNCHANGED <<currentState, currentReducer,
                                    isDispatching, stack>> ]_vars

\* C9 witness: a used unsubscribe function was invoked again by a reducer
\* and returned normally, while another subscription is still live.
C9_Witness ==
    /\ isDispatching
    /\ ret.op = "unsubscribe"
    /\ ret.outcome = "ok"
    /\ ~subs[ret.handle].isSubscribed
    /\ Working # <<>>

\* C10: replaceReducer(nextReducer) with a function, called when idle, makes
\* nextReducer the active reducer and makes exactly one reducer call, of
\* nextReducer on the prior state and the replace action, through dispatch
\* (so that the listeners are notified as by any dispatch) and returns the
\* store; every dispatch
\* calls the reducer active when it is made; with a non-function it raises
\* InvalidArgument and changes nothing.
C10_ReplaceReducer ==
    [][ /\ \A r \in Reducers :
               (ret'.op = "replaceReducer" /\ ~isDispatching
                    /\ replaceReducer(r)) =>
                   /\ currentReducer' = r
                   /\ reducerCalls' = reducerCalls + 1
                   /\ Len(stack') = Len(stack) + 1
                   /\ stack'[Len(stack')].via = "replaceReducer"
                   /\ stack'[Len(stack')].action = REPLACE_ACTION
                   /\ stack'[Len(stack')].reducer = r
                   /\ isDispatching'
        /\ (ret'.op = "replaceReducer" /\ replaceReducer(NotAFunction)) =>
               /\ ret'.outcome = "InvalidArgument"
               /\ UNCHANGED <<engine, stack, reducerCalls, log>>
        /\ (reducerReturns /\ Top.via = "replaceReducer") =>
               /\ currentState' = Reduce(Top.reducer, currentState,
                                         REPLACE_ACTION)
               /\ reducerCalls' = reducerCalls
               /\ \A x \in Callbacks : Count(SnapshotTaken, x) = LiveCount(x)
        /\ (Left /\ ret'.op = "replaceReducer" /\ ret'.outcome = "ok") =>
               /\ ListenersOf(ret'.notified) = ret'.snapshot
               /\ ret'.value = store
        /\ \A action \in ValidActions :
               (ret'.op = "dispatch" /\ ~isDispatching
                    /\ dispatch(action)) =>
                   stack'[Len(stack')].reducer = currentReducer ]_vars

\* C10 witness: replaceReducer(tally) on a counter store has returned after
\* notifying the subscribed listener; the state is the prior state plus 2.
C10_Witness ==
    /\ stack = <<>>
    /\ ret.op = "replaceReducer"
    /\ ret.outcome = "ok"
    /\ ret.value = store
    /\ Len(ret.notified) = 1
    /\ currentReducer = "tally"
    /\ log = << <<"tally", REPLACE_ACTION>> >>
    /\ currentState = initialState + 2

\* typeof x === 'function', for createStore's optional arguments.
Callable(x) == x = storeEnhancer

\* The outer createStore call built nothing and called no reducer.
NothingBuilt ==
    /\ heap' = <<>>
    /\ stack' = <<>>
    /\ reducerCalls' = 0
    /\ currentListeners' = null
    /\ nextListeners' = null

\* C11: createStore resolves its optional arguments by kind. A callable
\* second argument with an undefined third is the enhancer and the preloaded
\* state is undefined; two callables as second and third, or as third and
\* fourth, raise MultipleEnhancers; a defined third argument that is not
\* callable raises InvalidArgument; otherwise the second argument is the
\* preloaded state and the third, if callable, the enhancer. With an
\* enhancer the call is handed over with (reducer, preloadedState) and the
\* outer call builds no engine and makes no bootstrap dispatch.
C11_ArgumentResolution ==
    [][phase = "new" =>
        LET second == preloadedState
            third == enhancer
            handedOver == /\ phase' = "delegated"
                          /\ ret'.outcome = "delegated"
                          /\ reducer' = reducer
                          /\ NothingBuilt
            raises(e) == /\ phase' = "failed"
                         /\ ret'.outcome = e
                         /\ NothingBuilt
        IN  IF \/ Callable(second) /\ Callable(third)
               \/ Callable(third) /\ Callable(fourth)
            THEN raises("MultipleEnhancers")
            ELSE IF Callable(second) /\ third = undefined
            THEN /\ enhancer' = second
                 /\ preloadedState' = undefined
                 /\ handedOver
            ELSE IF third # undefined /\ ~Callable(third)
            THEN raises("InvalidArgument")
            ELSE /\ preloadedState' = second
                 /\ enhancer' = third
                 /\ IF Callable(third) THEN handedOver
                    ELSE IF reducer = NotAFunction
                    THEN raises("InvalidArgument")
                    ELSE /\ phase' = "constructing"
                         /\ currentState' = second
                         /\ reducerCalls' = 1
                         /\ stack'[1].action = INIT_ACTION]_vars

\* C11 witness: createStore(reducer, enhancer, undefined, f) was handed over
\* to the enhancer given as second argument, with an undefined preloaded state.
C11_Witness ==
    /\ phase = "delegated"
    /\ enhancer = storeEnhancer
    /\ preloadedState = undefined
    /\ fourth = storeEnhancer
    /\ ret.op = "createStore"
    /\ heap = <<>>

\* The subscriptions made by observable.subscribe for the observer with next.
ObserverSubs == {k \in DOMAIN subs : HasNext(subs[k].listener)}
\* observable.subscribe has just called the observer's next.
Immediate ==
    /\ Len(stack') = Len(stack) + 1
    /\ stack'[Len(stack')].pc = "next"

\* C12: an observer with next, subscribed to the observable while the engine
\* is not Dispatching, is handed the current state once at once and once after
\* every later committed dispatch, and once every handle that
\* observable.subscribe returned for it has been used (and no such call is in
\* progress), next is never called again.
C12_Original ==
    [][(/\ ObserverSubs # {}
        /\ \A k \in ObserverSubs : ~subs[k].isSubscribed
        /\ \A j \in DOMAIN stack : stack[j].pc # "next"
        /\ ~Immediate)
       => nexts' = nexts]_vars

\* The state after the first n commits.
StateAfter(n) == FoldLeft(SubSeq(log, 1, n), initialState)

\* C13 as stated: every listener called by a dispatch's notification loop
\* found, with getState(), the state that dispatch committed.
C13_Original ==
    \A j \in DOMAIN stack :
        stack[j].pc = "listener" =>
            \A n \in DOMAIN stack[j].notified :
                stack[j].notified[n].seen = StateAfter(stack[j].commitNo)

\* C13: inside every listener called by the notification loop of a dispatch
\* d, getState() succeeds and returns the state committed by the latest
\* reducer call: the state d committed for the first listener of the loop and
\* for every listener called while no dispatch nested in d has committed, and
\* the state committed by a later, nested dispatch otherwise.
C13_ListenersSeeLatestState ==
    /\ InListener =>
           /\ ~isDispatching
           /\ currentState = StateAfter(Len(log))
           /\ (ret.op = "getState" /\ ret.outcome = "ok") =>
                  ret.value = currentState
    /\ \A j \in DOMAIN stack :
           stack[j].pc = "listener" =>
               LET d == stack[j]
               IN  /\ d.commitNo <= Len(log)
                   /\ d.notified[1].seen = StateAfter(d.commitNo)
                   /\ \A n \in DOMAIN d.notified :
                          \E c \in d.commitNo..Len(log) :
                              d.notified[n].seen = StateAfter(c)
                   /\ (j = Len(stack) /\ d.commitNo = Len(log)) =>
                          \A n \in DOMAIN d.notified :
                              d.notified[n].seen = StateAfter(d.commitNo)
                   /\ j = Len(stack) =>
                          (d.notified[Len(d.notified)].seen # currentState
                              => Len(log) > d.commitNo)

\* C13 witness: the second listener of a dispatch is running and found the
\* state a nested dispatch, made by the first listener, committed.
C13_Witness ==
    /\ Len(stack) = 1
    /\ InListener
    /\ Top.i = 2
    /\ Top.notified[1].seen = 1
    /\ Top.notified[2].seen = 2
    /\ currentState = 2
    /\ Top.commitNo = 1
    /\ Len(log) = 2

\* The subscriptions of x made at top level whose handle has not been used.
LiveBefore(x) ==
    {k \in DOMAIN subs :
        subs[k].isSubscribed /\ subs[k].depth = 0 /\ subs[k].listener = x}
\* The calls of x, made since the outermost dispatch started, that found the
\* state s.
InvokedWith(x, s) ==
    {n \in DOMAIN outer.invoked :
        outer.invoked[n].listener = x /\ outer.invoked[n].seen = s}
\* An outermost dispatch has just returned and no listener raised during it.
OutermostReturned ==
    /\ stack = <<>>
    /\ ret.op \in {"dispatch", "replaceReducer"}
    /\ ret.outcome = "ok"
    /\ ~outer.aborted

\* C14: when an outermost dispatch returns and no listener raised during it,
\* every listener subscribed before it started and not unsubscribed since has
\* been called, by its loop or by the loop of a dispatch nested in it, at
\* least once (once per such subscription) when the state was already the
\* state the store has at the return.
C14_CalledWithFinalState ==
    OutermostReturned =>
        \A x \in Callbacks :
            Cardinality(InvokedWith(x, currentState))
                >= Cardinality(LiveBefore(x))

\* C14 witness: a dispatch returned whose first listener dispatched again;
\* both listeners were subscribed before, and the first call of the outer
\* loop found a state that is not the final one.
C14_Witness ==
    /\ OutermostReturned
    /\ Len(log) = 2
    /\ LiveBefore("f") # {}
    /\ LiveBefore("g") # {}
    /\ outer.invoked[1].seen # currentState
    /\ Len(outer.invoked) = 4

\* f1(f2(...fn(x)...)): the functions applied one by one, rightmost first.
RECURSIVE Nested(_, _)
Nested(funcs, x) ==
    IF funcs = <<>> THEN x
    ELSE Apply(Head(funcs), Nested(Tail(funcs), x))

\* C15: compose(f1, ..., fn)(x) = f1(f2(...fn(x)...)) for every list of
\* functions and every argument; compose() is the identity function and
\* compose(f) returns f itself.
C15_ComposeRightToLeft ==
    /\ (pure.fn = "compose" /\ pure.step = "applied") =>
           /\ pure.result = Nested(pure.funcs, pure.x)
           /\ (Len(pure.funcs) = 0 => pure.result = pure.x)
    /\ (pure.fn = "compose" /\ pure.step # "start" /\ Len(pure.funcs) = 1) =>
           pure.composed = pure.funcs[1]

\* C15 witness: compose(sqr, inc, dbl)(2) was computed, and is 25; the
\* functions applied in the other order give 9.
C15_Witness ==
    /\ pure.fn = "compose"
    /\ pure.step = "applied"
    /\ pure.funcs = <<Given("sqr"), Given("inc"), Given("dbl")>>
    /\ pure.x = 2
    /\ pure.result = 25

\* What the k-th call of a bound function should have handed to dispatch:
\* the action the input's creator under that key makes of the argument.
ExpectedAction(call) ==
    Create(IF pure.input.kind = "function" THEN pure.input.creator
           ELSE Get(pure.input, call.key),
           call.arg)

\* C16: bindActionCreators(map, dispatch) returns a mapping whose keys are
\* exactly the keys of map that hold functions; a call bound[k](args) calls
\* dispatch exactly once, with map[k](args), and returns what dispatch
\* returned; binding itself dispatches nothing; a single function is bound to
\* a single function; an input that is neither a function nor a non-null
\* object fails with an error.
C16_BindActionCreators ==
    (pure.fn = "bindActionCreators" /\ pure.step # "start") =>
        /\ pure.step = "failed" <=> pure.input.kind \notin {"function", "object"}
        /\ pure.step = "failed" => pure.bound.outcome = "Error"
        /\ pure.input.kind = "function" => pure.bound.kind = "function"
        /\ pure.input.kind = "object" =>
               /\ pure.bound.kind = "object"
               /\ DOMAIN pure.bound.own =
                      {k \in forIn(pure.input) : Get(pure.input, k) \in Creators}
        /\ Len(pure.dispatched) = Len(pure.made)
        /\ Len(pure.returned) = Len(pure.made)
        /\ \A n \in DOMAIN pure.made :
               /\ n \in DOMAIN pure.dispatched
               /\ pure.dispatched[n] = ExpectedAction(pure.made[n])
               /\ pure.returned[n] = dispatchStub(pure.dispatched[n])

\* C16 witness: an object with an action creator under "a" and a value that
\* is not a function under "b" was bound to an object with the key "a" only,
\* whose function was called with 1 and with 2.
C16_Witness ==
    /\ pure.fn = "bindActionCreators"
    /\ pure.step = "bound"
    /\ pure.input.kind = "object"
    /\ pure.input.own = [k \in Keys |-> IF k = "a" THEN "add" ELSE NotAFunction]
    /\ DOMAIN pure.bound.own = {"a"}
    /\ Len(pure.made) = 2
    /\ pure.dispatched = <<Create("add", 1), Create("add", 2)>>

\* C17: the array a notification loop in progress iterates is never mutated
\* in place: it still has the content it had when the loop started, and
\* while it is the working array it is also the committed one, so that the
\* next subscribe or unsubscribe copies it first; also under nested dispatch
\* and after unsubscribe has set the committed reference to null.
C17_IteratedListUntouched ==
    \A j \in DOMAIN stack :
        stack[j].pc = "listener" =>
            /\ heap[stack[j].listeners] = stack[j].snapshot
            /\ stack[j].listeners = nextListeners =>
                   currentListeners = nextListeners

\* C17 witness: two loops are in progress, one nested in the other; a
\* listener of the inner one has just unsubscribed, so the committed
\* reference is null and the working array is a copy that differs from the
\* array either loop iterates.
C17_Witness ==
    /\ Len(stack) = 2
    /\ stack[1].pc = "listener"
    /\ stack[2].pc = "listener"
    /\ ret.op = "unsubscribe"
    /\ ret.outcome = "ok"
    /\ currentListeners = null
    /\ stack[2].listeners # nextListeners
    /\ heap[nextListeners] # stack[2].snapshot

\* The reducer of the top frame has just returned: its dispatch commits.
ReducerReturned ==
    /\ InReducer
    /\ \/ Left /\ ret'.outcome = "ok"
       \/ /\ Len(stack') = Len(stack)
          /\ stack'[Len(stack')].pc = "listener"
\* A dispatch has returned to its caller without an error.
DispatchReturned ==
    /\ ret.op \in {"dispatch", "replaceReducer"}
    /\ ret.outcome = "ok"
\* s is t without its last entries (at least one).
ProperPrefix(s, t) ==
    /\ Len(s) < Len(t)
    /\ \A n \in DOMAIN s : s[n] = t[n]

\* C18 as stated: whenever a dispatch has returned, the committed and the
\* working reference are the same.
C18_Original == DispatchReturned => currentListeners = nextListeners

\* A subscribe or unsubscribe call has just returned normally (the
\* observable's subscribe returns after the observer's next has).
RegistryCall ==
    /\ calls' # calls \/ (InNext /\ Left)
    /\ ret'.op \in {"subscribe", "unsubscribe", "observable.subscribe"}
    /\ ret'.outcome = "ok"

\* C18: the committed reference is assigned the working reference whenever a
\* dispatch (a nested one too) starts its notification phase, before the
\* first listener is called, and not when a phase ends: a dispatch that
\* returns assigns neither reference. Apart from the phase starts, the two
\* references change only in a subscribe or unsubscribe call that takes
\* effect, and they differ after it: a subscribe leaves the committed
\* reference as it is and an unsubscribe sets it to null. So, at any moment
\* and in particular when a dispatch returns, the two are the same reference
\* exactly if no subscribe or unsubscribe has taken effect since the most
\* recent phase start; when they differ, the committed reference is null or
\* the working array extends the committed one.
C18_CommittedAtLoopStart ==
    [][/\ ReducerReturned =>
              /\ currentListeners' = nextListeners
              /\ nextListeners' = nextListeners
       /\ (InListener /\ Left) =>
              UNCHANGED <<currentListeners, nextListeners>>
       /\ phase = "built" =>
              /\ (/\ ~ReducerReturned
                  /\ <<currentListeners, nextListeners>>' #
                         <<currentListeners, nextListeners>>) =>
                     RegistryCall
              /\ (RegistryCall /\ subs' # subs) =>
                     /\ currentListeners' # nextListeners'
                     /\ currentListeners' =
                            (IF ret'.op = "unsubscribe" THEN null
                             ELSE currentListeners)
              /\ (RegistryCall /\ subs' = subs) =>
                     UNCHANGED <<currentListeners, nextListeners>>
              /\ currentListeners' # nextListeners' =>
                     \/ currentListeners' = null
                     \/ ProperPrefix(heap'[currentListeners'],
                                     heap'[nextListeners'])]_vars

\* C18 witness: a dispatch has returned at top level whose listener
\* subscribed another one; the committed reference is still the array the
\* loop iterated and the working reference a longer copy.
C18_Witness ==
    /\ stack = <<>>
    /\ DispatchReturned
    /\ Len(ret.notified) = 1
    /\ currentListeners # null
    /\ currentListeners # nextListeners
    /\ heap[currentListeners] = ret.snapshot
    /\ Len(heap[nextListeners]) = 2

\* The callbacks of the subscriptions whose handle has not been used with
\* effect, in the order of the subscribe calls.
LiveCallbacks ==
    LET live == SelectSeq(subs, LAMBDA r : r.isSubscribed)
    IN  [n \in 1..Len(live) |-> live[n].listener]

\* C19: whenever the engine is not Dispatching, the sequence of callbacks
\* the next dispatch will notify is the callbacks of the live subscriptions
\* in subscription order, also when a callback is subscribed more than once
\* and one of its handles has been used.
C19_Original ==
    (phase = "built" /\ ~isDispatching) => Working = LiveCallbacks

\* C20: for every callback, the working list holds as many entries of it as
\* it has live subscriptions, and nothing else: the lookup of a live
\* subscription's listener finds an entry, and an unsubscribe, which ends
\* one live subscription, leaves the list one entry of that callback, and no
\* entry of another, shorter.
C20_OneEntryPerLiveSubscription ==
    phase = "built" =>
        /\ \A x \in Callbacks : Count(Working, x) = LiveCount(x)
        /\ Len(Working) =
               Cardinality({k \in DOMAIN subs : subs[k].isSubscribed})
        /\ \A k \in DOMAIN subs :
               subs[k].isSubscribed =>
                   indexOf(Working, subs[k].listener) >= 0

\* C20 witness: one of three subscriptions of the same callback has just been
\* ended, next to a subscription of another callback.
C20_Witness ==
    /\ ret.op = "unsubscribe"
    /\ ret.outcome = "ok"
    /\ LiveCount("f") = 2
    /\ LiveCount("g") = 1
    /\ Len(subs) = 4
    /\ Working # LiveCallbacks

\* C21: an unsubscribe function that has not taken effect yet, invoked while
\* Dispatching, raises ReentrancyError and changes nothing: its subscription
\* stays live and its listener stays in the working list. Invoked later while
\* idle, the same function returns normally, ends its subscription and removes
\* one entry of its listener, and every notification phase started after that
\* holds one entry of the listener per subscription still live: none, when
\* this was its only subscription.
C21_RejectedHandleNotConsumed ==
    [][ /\ \A k \in 1..Len(subs) :
               (/\ ret'.op = "unsubscribe"
                /\ ret'.handle = k
                /\ subs[k].isSubscribed
                /\ unsubscribe(k)) =>
                   IF isDispatching
                   THEN /\ ret'.outcome = "ReentrancyError"
                        /\ subs'[k].isSubscribed
                        /\ Count(Working', subs[k].listener) >= 1
                        /\ UNCHANGED <<engine, stack, reducerCalls, log>>
                   ELSE k \in outer.rejected =>
                        /\ ret'.outcome = "ok"
                        /\ ~subs'[k].isSubscribed
                        /\ Count(Working', subs[k].listener) =
                               Count(Working, subs[k].listener) - 1
                        /\ Count(Working', subs[k].listener) =
                               LiveCount(subs[k].listener) - 1
        /\ reducerReturns =>
               \A k \in outer.rejected :
                   ~subs[k].isSubscribed =>
                       Count(SnapshotTaken, subs[k].listener) =
                           LiveCount(subs[k].listener) ]_vars

\* C21 witness: the only subscription's unsubscribe function was rejected by
\* a reducer and used later while idle; the dispatch made after that has
\* returned without calling any listener.
C21_Witness ==
    /\ stack = <<>>
    /\ Len(subs) = 1
    /\ 1 \in outer.rejected
    /\ ~subs[1].isSubscribed
    /\ ret.op = "dispatch"
    /\ ret.outcome = "ok"
    /\ ret.snapshot = <<>>
    /\ ret.notified = <<>>
    /\ Len(log) = 2

\* C22 as stated: replaceReducer invoked while Dispatching raises, and a
\* replaceReducer call that raises when it is made (while Dispatching, or with
\* an argument that is not a function) leaves the active reducer, the state,
\* the working list and the subscriptions as they were before the call.
C22_Original ==
    [][ \A r \in Reducers \cup {NotAFunction} :
            (ret'.op = "replaceReducer" /\ replaceReducer(r)) =>
                /\ isDispatching => ret'.outcome \in Errors
                /\ ret'.outcome \in Errors =>
                       UNCHANGED <<currentReducer, currentState, heap,
                                   nextListeners, subs>> ]_vars

\* The registered listeners: the subscriptions and the working list.
Registry == <<subs, heap[nextListeners]>>

\* C23: in the built store, getState changes nothing; subscribe and
\* unsubscribe change neither the state, the active reducer, the flag nor the
\* dispatches in progress; every step of dispatch's own code (the call up to
\* the reducer and, being the steps in which user code makes no call, the
\* reducer's return or raise and a listener's return or raise) leaves the
\* active reducer, the subscriptions and the working list as they are; the state changes only when the reducer called by a dispatch, or by
\* the dispatch inside replaceReducer, returns; and the active reducer changes
\* only in a replaceReducer call.
C23_FrameConditions ==
    [][ phase = "built" =>
        /\ (ret'.op = "getState" /\ getState) =>
               UNCHANGED <<phase, args, engine, stack, ghost>>
        /\ \A listener \in Callbacks \cup {NotAFunction} :
               (ret'.op = "subscribe" /\ calls' # calls
                    /\ subscribe(listener)) =>
                   UNCHANGED <<currentState, currentReducer, isDispatching,
                               stack>>
        /\ \A k \in 1..Len(subs) :
               (ret'.op = "unsubscribe" /\ ret'.handle = k
                    /\ unsubscribe(k)) =>
                   UNCHANGED <<currentState, currentReducer, isDispatching,
                               stack>>
        /\ \A action \in Actions :
               (ret'.op = "dispatch" /\ calls' # calls
                    /\ dispatch(action)) =>
                   UNCHANGED <<currentState, currentReducer, subs, heap,
                               nextListeners>>
        /\ calls' = calls =>
               UNCHANGED <<currentReducer, subs, heap, nextListeners>>
        /\ currentState' # currentState =>
               /\ reducerReturns
               /\ Top.via \in {"dispatch", "replaceReducer"}
        /\ currentReducer' # currentReducer =>
               /\ ret'.op = "replaceReducer"
               /\ replaceReducer(currentReducer')
        /\ Registry' # Registry =>
               /\ ret'.op \in {"subscribe", "unsubscribe"}
               /\ calls' # calls ]_vars

\* C23 witness: a dispatch has returned after changing the state and calling
\* its one listener, which subscribed another listener meanwhile; the active
\* reducer is the one the store was built with.
C23_Witness ==
    /\ stack = <<>>
    /\ ret.op = "dispatch"
    /\ ret.outcome = "ok"
    /\ Len(ret.notified) = 1
    /\ Len(Working) = 2
    /\ LiveCount("f") = 1
    /\ LiveCount("g") = 1
    /\ currentState = 1
    /\ currentReducer = reducer
    /\ calls = 3

\* The listeners of its array that the top frame's loop has not called yet.
Unreached == SubSeq(Top.snapshot, Top.i + 1, Len(Top.snapshot))

\* C24: when a listener raises, the dispatch that called it raises the same
\* error to its caller at once, without calling the listeners left in its
\* array; the state, the committed actions, the active reducer, the
\* subscriptions and the listener lists are as the listener left them and
\* the engine is not Dispatching. Every notification phase started after a
\* loop was abandoned takes the whole working list, in its order, with one
\* entry per live subscription, so the listeners the abandoned loop did not
\* reach are in it if still subscribed; and a dispatch that returns has
\* called exactly the listeners of its array, in order.
C24_ListenerRaises ==
    [][ /\ listenerThrows =>
               /\ ret'.op = Top.via
               /\ ret'.outcome = "ListenerError"
               /\ ret'.notified = Top.notified
               /\ Len(ret'.notified) = Top.i
               /\ stack' = Front(stack)
               /\ ~isDispatching'
               /\ outer'.missed = Unreached
               /\ UNCHANGED <<engine, log, reducerCalls>>
        /\ (outer.missed # <<>> /\ reducerReturns) =>
               /\ currentState' =
                      Reduce(Top.reducer, currentState, Top.action)
               /\ SnapshotTaken = Working
               /\ \A x \in Callbacks :
                      Count(SnapshotTaken, x) = LiveCount(x)
        /\ (outer.missed # <<>> /\ listenerReturns /\ Left) =>
               /\ ret'.outcome = "ok"
               /\ ListenersOf(ret'.notified) = ret'.snapshot ]_vars

\* C24 witness: of two subscribed listeners the first raised in the first
\* dispatch, so the second was not called; the second dispatch has returned
\* after calling both, in order, and both dispatches are committed.
C24_Witness ==
    /\ stack = <<>>
    /\ outer.missed = <<"g">>
    /\ ret.op = "dispatch"
    /\ ret.outcome = "ok"
    /\ ListenersOf(ret.notified) = <<"f", "g">>
    /\ Len(log) = 2
    /\ currentState = 2
    /\ calls = 4

====
